---- MODULE Spec2Model ----
(***************************************************************************)
(* A model of the dependency-injection container (class Injector): the     *)
(* registry `container`, the singleton cache `singletons`, the scope       *)
(* caches created by createScope, and the recursive resolution             *)
(* getInstance -> resolveSingleton / resolveScoped -> createInstance.      *)
(* Objects live in `heap`; an object's identity is its index there.        *)
(***************************************************************************)
EXTENDS Integers, Sequences, FiniteSets, TLC

(* ------------------------------ bounds --------------------------------- *)

\* Depth of nested getInstance calls the call stack holds before RangeError.
MaxStack == 3

\* Objects the heap may hold.
MaxObjects == 4

\* Scope handles createScope may hand out.
MaxScopes == 2

\* register / registerFactory calls made on the container.
MaxRegs == 3

\* Commands the keyboard's history may hold.
MaxHistory == 3

\* Listeners of each kind registered on the user object.
MaxListeners == 2

\* Item ids run from 1 to MaxId.
MaxId == 3

(* ------------------------------ values --------------------------------- *)

\* enum LifeStyle
LifeStyle == {"PerRequest", "Scoped", "Singleton"}

\* A lifestyle value outside the enum, which a caller can pass by a cast
\* (3 as LifeStyle): the switch of getInstance has no case for it.
OtherLifeStyles == {"Unrecognized"}

\* The injection tokens (Symbol.for(...)) callers use.
Tokens == {"IStorage", "ILogger", "IProcessor"}

\* What JavaScript yields for an absent optional field / a null field.
Undefined == "undefined"
Null == "null"

\* A reference to heap object i, and a literal constructor parameter.
Ref(i) == [ref |-> i, lit |-> ""]
Lit(s) == [ref |-> 0, lit |-> s]

\* Constructor-style recipes callers register for each token: a class, its
\* dependency tokens and its literal parameters.
CtorRecipes(token) ==
    CASE token = "IStorage" ->
           { [classType |-> "FileStorage", dependencies |-> << >>,
              constructorParams |-> <<Lit("prod.db")>>] }
      [] token = "ILogger" ->
           { [classType |-> "FileLogger", dependencies |-> <<"IStorage">>,
              constructorParams |-> <<Lit("prod.log")>>] }
      [] token = "IProcessor" ->
           { [classType |-> "AdvancedProcessor",
              dependencies |-> <<"ILogger", "IStorage">>,
              constructorParams |-> <<Lit("fast"), Lit("safe")>>],
             [classType |-> "SimpleProcessor", dependencies |-> <<"IProcessor">>,
              constructorParams |-> << >>] }

\* Zero-argument factories callers register for each token.
Factories(token) == IF token = "IStorage" THEN {"newDatabaseStorage"} ELSE {}

\* A class and a factory callers register with the optional arguments left
\* out: register(token, classType) and registerFactory(token, factory).
PlainClasses(token) == IF token = "ILogger" THEN {"ConsoleLogger"} ELSE {}
PlainFactories(token) == IF token = "ILogger" THEN {"newConsoleLogger"} ELSE {}

\* Builders that throw or call back into the container, which a caller may
\* register as well: a class whose constructor throws after receiving its
\* dependency, a factory that throws, and a factory that resolves its own
\* token through the injector (once, guarded by a flag of its closure)
\* before it builds.
FailingRecipes(token) ==
    IF token = "ILogger"
    THEN { [classType |-> "BrokenLogger", dependencies |-> <<"IStorage">>,
            constructorParams |-> << >>] }
    ELSE {}

FailingFactories(token) == IF token = "IStorage" THEN {"failingFactory"} ELSE {}

ReentrantFactories(token) ==
    IF token = "IProcessor" THEN {"reentrantFactory"} ELSE {}

\* The scope context of a direct injector.getInstance(token) call.
NoScope == 0

\* Error messages thrown during a resolution.
NotRegistered == "Dependency not registered"
NoActiveScope == "Cannot resolve Scoped dependency outside scope"
RangeError == "Maximum call stack size exceeded"

\* The error a failing constructor or factory throws.
BuildFailure == "BuildFailure"

(* ------------------------------- state --------------------------------- *)

VARIABLES
    container,   \* Map<InjectionToken, Registration>
    singletons,  \* Map<InjectionToken, any>
    scopes,      \* scopes[s]: the scopeCache Map bound to the s-th handle
    heap,        \* every object built so far, in build order
    log,         \* the getInstance calls of the latest resolution, in order of return
    nRegs        \* register / registerFactory calls made so far

\* The state of the other programs of the repository, each checked under its
\* own specification: the virtual keyboard (src/6/6.ts).
VARIABLES
    keyBindings,          \* Keyboard.keyBindings: key -> command factory
    commandHistory,       \* Keyboard.commandHistory
    currentHistoryIndex,  \* Keyboard.currentHistoryIndex (0-based, -1 when empty)
    currentText,          \* OutputManager.currentText
    currentVolume,        \* VolumeManager.currentVolume
    isPlaying             \* MediaPlayerCommand.isPlaying

\* The observable user object (src/4/4.ts).
VARIABLES
    name,                      \* User._name
    age,                       \* User._age
    propertyChangedListeners,  \* NotifyDataChanged.propertyChangedListeners
    propertyChangingListeners, \* NotifyDataChanging.propertyChangingListeners
    calls                      \* the listener calls of the latest assignment, in order

\* The repository (src/5/5.ts).
VARIABLES
    items,       \* DataRepository.items
    storedData   \* what the file at filePath holds

injectorVars == <<container, singletons, scopes, heap, log, nRegs>>

notifyVars == <<name, age, propertyChangedListeners, propertyChangingListeners,
                calls>>

repositoryVars == <<items, storedData>>

keyboardVars == <<keyBindings, commandHistory, currentHistoryIndex,
                  currentText, currentVolume, isPlaying>>

labVars == <<keyboardVars, notifyVars, repositoryVars>>

vars == <<injectorVars, labVars>>

\* new Map()
EmptyMap == [k \in {} |-> 0]

\* Map.prototype.set
MapSet(m, k, v) == [x \in DOMAIN m \cup {k} |-> IF x = k THEN v ELSE m[x]]

\* Map.prototype.has
MapHas(m, k) == k \in DOMAIN m

(* ----------------------------- resolution ------------------------------ *)

\* A resolution runs on a world w = [singletons, scopes, heap, log, busy] and
\* returns [w, ok, val, err]: the world after it, and the object returned
\* (val, a heap index) or the error thrown (err). busy is the flag of the
\* re-entrant factory's closure, set while that factory is running.
World == [singletons |-> singletons, scopes |-> scopes, heap |-> heap,
          log |-> << >>, busy |-> FALSE]

Return(w, val) == [w |-> w, ok |-> TRUE, val |-> val, err |-> ""]
Throw(w, err) == [w |-> w, ok |-> FALSE, val |-> 0, err |-> err]

\* `new registration.implementation(...args)` and `registration.factory()`:
\* a fresh object holding the arguments its builder received, remembered with
\* the token and the Registration it was built for and, for a Scoped
\* Registration, the Scope it was built in (its owner).
Construct(w, token, registration, args, sc) ==
    LET obj == [token |-> token, registration |-> registration, args |-> args,
                owner |-> IF registration.lifestyle = "Scoped" THEN sc ELSE NoScope]
        h == Append(w.heap, obj)
    IN  Return([w EXCEPT !.heap = h], Len(h))

\* The log entry of a getInstance call that started in world w0 and returned r.
Logged(w0, r, token, sc, depth, lifestyle) ==
    [r EXCEPT !.w.log = Append(r.w.log,
        [depth |-> depth, token |-> token, sc |-> sc, lifestyle |-> lifestyle,
         ok |-> r.ok, val |-> r.val, err |-> r.err,
         before |-> Len(w0.heap), after |-> Len(r.w.heap),
         wroteSingletons |-> r.w.singletons # w0.singletons,
         wroteScopes |-> r.w.scopes # w0.scopes])]

RECURSIVE getInstance(_, _, _, _)
RECURSIVE resolveDependencies(_, _, _, _, _, _)

\* Mutant of resolveDependencies: only the first dependency is resolved.
resolveDependenciesFirstOnly(w, dependencies, i, sc, depth, acc) ==
    IF i > Len(dependencies) \/ i > 1
    THEN [w |-> w, ok |-> TRUE, vals |-> acc, err |-> ""]
    ELSE LET r == getInstance(w, dependencies[i], sc, depth)
         IN  IF ~r.ok
             THEN [w |-> r.w, ok |-> FALSE, vals |-> acc, err |-> r.err]
             ELSE resolveDependencies(r.w, dependencies, i + 1, sc, depth,
                                      Append(acc, Ref(r.val)))

\* Mutant of resolveDependencies: after a dependency fails the remaining ones
\* are still resolved, and the first error is reported at the end.
resolveDependenciesEager(w, dependencies, i, sc, depth, acc) ==
    IF i > Len(dependencies)
    THEN [w |-> w, ok |-> TRUE, vals |-> acc, err |-> ""]
    ELSE LET r == getInstance(w, dependencies[i], sc, depth)
             rest == resolveDependencies(r.w, dependencies, i + 1, sc, depth,
                                         Append(acc, Ref(r.val)))
         IN  IF ~r.ok
             THEN [w |-> rest.w, ok |-> FALSE, vals |-> acc, err |-> r.err]
             ELSE rest

\* registration.dependencies.map((depToken) => this.getInstance(depToken, scopeCache))
resolveDependencies(w, dependencies, i, sc, depth, acc) ==
    IF i > Len(dependencies)
    THEN [w |-> w, ok |-> TRUE, vals |-> acc, err |-> ""]
    ELSE LET r == getInstance(w, dependencies[i], sc, depth)
         IN  IF ~r.ok
             THEN [w |-> r.w, ok |-> FALSE, vals |-> acc, err |-> r.err]
             ELSE resolveDependencies(r.w, dependencies, i + 1, sc, depth,
                                      Append(acc, Ref(r.val)))

\* Mutant of DependencyScope: the dependencies are resolved outside any scope.
DependencyScopeDropped(sc) == NoScope

\* The scope context createInstance hands to the resolution of a dependency.
DependencyScope(sc) == sc

\* Mutant of BuilderArgs: the literal parameters come first.
BuilderArgsParamsFirst(resolvedDependencies, constructorParams) ==
    constructorParams \o resolvedDependencies

\* The argument list createInstance hands to the builder.
BuilderArgs(resolvedDependencies, constructorParams) ==
    resolvedDependencies \o constructorParams

\* registration.factory(): the factory runs with no arguments. A failing
\* factory throws; the re-entrant factory, unless it is already running,
\* first calls injector.getInstance(token) and then builds its object (its
\* finally block clears the flag on either exit).
InvokeFactory(w, token, registration, sc, depth) ==
    CASE registration.factory \in FailingFactories(token) ->
           Throw(w, BuildFailure)
      [] registration.factory \in ReentrantFactories(token) /\ ~w.busy ->
           LET inner == getInstance([w EXCEPT !.busy = TRUE], token, NoScope,
                                    depth + 1)
               left == [inner.w EXCEPT !.busy = FALSE]
           IN  IF ~inner.ok
               THEN Throw(left, inner.err)
               ELSE Construct(left, token, registration, << >>, sc)
      [] OTHER ->
           Construct(w, token, registration, << >>, sc)

\* new registration.implementation(...args): a failing constructor throws.
Instantiate(w, token, registration, args, sc) ==
    IF \E recipe \in FailingRecipes(token) :
          recipe.classType = registration.implementation
    THEN Throw(w, BuildFailure)
    ELSE Construct(w, token, registration, args, sc)

\* Mutant of createInstance: a Registration that lists its own token among its
\* dependencies is refused with a dedicated error.
createInstanceCycleGuard(w, token, registration, sc, depth) ==
    IF registration.factory # Undefined
    THEN InvokeFactory(w, token, registration, sc, depth)
    ELSE IF \E k \in DOMAIN registration.dependencies :
               registration.dependencies[k] = token
    THEN Throw(w, "CyclicDependency")
    ELSE LET d == resolveDependencies(w, registration.dependencies, 1,
                                      DependencyScope(sc), depth + 1, << >>)
         IN  IF ~d.ok
             THEN Throw(d.w, d.err)
             ELSE Instantiate(d.w, token, registration,
                              BuilderArgs(d.vals, registration.constructorParams), sc)

createInstance(w, token, registration, sc, depth) ==
    IF registration.factory # Undefined
    THEN InvokeFactory(w, token, registration, sc, depth)
    ELSE LET d == resolveDependencies(w, registration.dependencies, 1,
                                      DependencyScope(sc), depth + 1, << >>)
         IN  IF ~d.ok
             THEN Throw(d.w, d.err)
             ELSE Instantiate(d.w, token, registration,
                              BuilderArgs(d.vals, registration.constructorParams), sc)

\* Mutant of resolveSingleton: the has() check is lost, every call builds and
\* stores again.
resolveSingletonRebuilding(w, token, registration, sc, depth) ==
    LET r == createInstance(w, token, registration, sc, depth)
    IN  IF ~r.ok
        THEN r
        ELSE Return([r.w EXCEPT !.singletons = MapSet(@, token, r.val)], r.val)

\* Mutant of resolveSingleton: inside a scope the check is made against the
\* scope's cache, so each scope builds its own instance.
resolveSingletonPerScope(w, token, registration, sc, depth) ==
    IF sc # NoScope /\ MapHas(w.scopes[sc], token)
    THEN Return(w, w.scopes[sc][token])
    ELSE IF sc = NoScope /\ MapHas(w.singletons, token)
    THEN Return(w, w.singletons[token])
    ELSE LET r == createInstance(w, token, registration, sc, depth)
         IN  IF ~r.ok
             THEN r
             ELSE IF sc = NoScope
             THEN Return([r.w EXCEPT !.singletons = MapSet(@, token, r.val)], r.val)
             ELSE Return([r.w EXCEPT !.singletons = MapSet(@, token, r.val),
                                     !.scopes[sc] = MapSet(@, token, r.val)], r.val)

\* Mutant of resolveSingleton: a failed build is caught and a default
\* instance is built, cached and returned in its place.
resolveSingletonFallback(w, token, registration, sc, depth) ==
    IF ~MapHas(w.singletons, token)
    THEN LET r == createInstance(w, token, registration, sc, depth)
             f == IF r.ok THEN r
                  ELSE Construct(r.w, token, registration, << >>, sc)
         IN  Return([f.w EXCEPT !.singletons = MapSet(@, token, f.val)], f.val)
    ELSE Return(w, w.singletons[token])

resolveSingleton(w, token, registration, sc, depth) ==
    IF ~MapHas(w.singletons, token)
    THEN LET r == createInstance(w, token, registration, sc, depth)
         IN  IF ~r.ok
             THEN r
             ELSE Return([r.w EXCEPT !.singletons = MapSet(@, token, r.val)], r.val)
    ELSE Return(w, w.singletons[token])

\* Mutant of resolveScoped: an instance cached by any scope is reused.
resolveScopedShared(w, token, registration, sc, depth) ==
    IF \E s \in DOMAIN w.scopes : MapHas(w.scopes[s], token)
    THEN Return(w, w.scopes[CHOOSE s \in DOMAIN w.scopes :
                                 MapHas(w.scopes[s], token)][token])
    ELSE LET r == createInstance(w, token, registration, sc, depth)
         IN  IF ~r.ok
             THEN r
             ELSE Return([r.w EXCEPT !.scopes[sc] = MapSet(@, token, r.val)], r.val)

\* Mutant of resolveScoped: the instance built for a scope is stored in the
\* singleton cache as well.
resolveScopedPromoting(w, token, registration, sc, depth) ==
    IF ~MapHas(w.scopes[sc], token)
    THEN LET r == createInstance(w, token, registration, sc, depth)
         IN  IF ~r.ok
             THEN r
             ELSE Return([r.w EXCEPT !.scopes[sc] = MapSet(@, token, r.val),
                                     !.singletons = MapSet(@, token, r.val)], r.val)
    ELSE Return(w, w.scopes[sc][token])

resolveScoped(w, token, registration, sc, depth) ==
    IF ~MapHas(w.scopes[sc], token)
    THEN LET r == createInstance(w, token, registration, sc, depth)
         IN  IF ~r.ok
             THEN r
             ELSE Return([r.w EXCEPT !.scopes[sc] = MapSet(@, token, r.val)], r.val)
    ELSE Return(w, w.scopes[sc][token])

\* Mutant of Dispatch: the default branch caches like a Singleton.
DispatchCachingDefault(w, token, registration, sc, depth) ==
    CASE registration.lifestyle = "Scoped" ->
           IF sc = NoScope
           THEN Throw(w, NoActiveScope)
           ELSE resolveScoped(w, token, registration, sc, depth)
      [] OTHER ->
           resolveSingleton(w, token, registration, sc, depth)

\* Mutant of Dispatch: a Scoped token resolved outside a scope is built anew.
DispatchScopedFallback(w, token, registration, sc, depth) ==
    CASE registration.lifestyle = "Singleton" ->
           resolveSingleton(w, token, registration, sc, depth)
      [] registration.lifestyle = "Scoped" /\ sc # NoScope ->
           resolveScoped(w, token, registration, sc, depth)
      [] OTHER ->
           createInstance(w, token, registration, sc, depth)

\* Mutant of Dispatch: the singleton cache is consulted before the lifestyle.
DispatchSingletonFirst(w, token, registration, sc, depth) ==
    IF MapHas(w.singletons, token)
    THEN Return(w, w.singletons[token])
    ELSE CASE registration.lifestyle = "Singleton" ->
                resolveSingleton(w, token, registration, sc, depth)
           [] registration.lifestyle = "Scoped" ->
                IF sc = NoScope
                THEN Throw(w, NoActiveScope)
                ELSE resolveScoped(w, token, registration, sc, depth)
           [] OTHER ->
                createInstance(w, token, registration, sc, depth)

\* Mutant of Dispatch: a factory-style Registration is never cached.
DispatchFactoryUncached(w, token, registration, sc, depth) ==
    CASE registration.factory # Undefined ->
           createInstance(w, token, registration, sc, depth)
      [] registration.lifestyle = "Singleton" ->
           resolveSingleton(w, token, registration, sc, depth)
      [] registration.lifestyle = "Scoped" ->
           IF sc = NoScope
           THEN Throw(w, NoActiveScope)
           ELSE resolveScoped(w, token, registration, sc, depth)
      [] OTHER ->
           createInstance(w, token, registration, sc, depth)

\* Mutant of Dispatch: a lifestyle the switch does not know is refused.
DispatchStrict(w, token, registration, sc, depth) ==
    CASE registration.lifestyle = "Singleton" ->
           resolveSingleton(w, token, registration, sc, depth)
      [] registration.lifestyle = "Scoped" ->
           IF sc = NoScope
           THEN Throw(w, NoActiveScope)
           ELSE resolveScoped(w, token, registration, sc, depth)
      [] registration.lifestyle = "PerRequest" ->
           createInstance(w, token, registration, sc, depth)
      [] OTHER ->
           Throw(w, "Unknown lifestyle")

\* The switch of getInstance on registration.lifestyle.
Dispatch(w, token, registration, sc, depth) ==
    CASE registration.lifestyle = "Singleton" ->
           resolveSingleton(w, token, registration, sc, depth)
      [] registration.lifestyle = "Scoped" ->
           IF sc = NoScope
           THEN Throw(w, NoActiveScope)
           ELSE resolveScoped(w, token, registration, sc, depth)
      [] OTHER ->
           createInstance(w, token, registration, sc, depth)

\* Mutant of Lookup: an unregistered token yields undefined instead of a throw.
LookupLenient(w, token, sc, depth) ==
    IF ~MapHas(container, token)
    THEN Return(w, 0)
    ELSE Dispatch(w, token, container[token], sc, depth)

\* container.get(token), and the throw when it yields undefined.
Lookup(w, token, sc, depth) ==
    IF ~MapHas(container, token)
    THEN Throw(w, NotRegistered)
    ELSE Dispatch(w, token, container[token], sc, depth)

getInstance(w, token, sc, depth) ==
    IF depth > MaxStack
    THEN Logged(w, Throw(w, RangeError), token, sc, depth, "")
    ELSE Logged(w, Lookup(w, token, sc, depth), token, sc, depth,
                IF MapHas(container, token) THEN container[token].lifestyle ELSE "")

(* --------------------------- virtual keyboard --------------------------- *)

\* The container before any call on it.
InjectorFresh ==
    /\ container = EmptyMap
    /\ singletons = EmptyMap
    /\ scopes = << >>
    /\ heap = << >>
    /\ log = << >>
    /\ nRegs = 0

\* new User() of src/4/4.ts, with no listener added.
NotifyFresh ==
    /\ name = ""
    /\ age = 0
    /\ propertyChangedListeners = << >>
    /\ propertyChangingListeners = << >>
    /\ calls = << >>

\* A file that does not exist.
NoFile == [exists |-> FALSE, data |-> << >>]

\* new DataRepository(filePath, serializer) with no file at filePath.
RepositoryFresh ==
    /\ items = << >>
    /\ storedData = NoFile

\* The commands, named as KeyboardStateSaver.getCommandType names them.
CommandTypes == {"PrintChar:a", "VolumeUp", "VolumeDown", "MediaPlayer"}

\* The keys pressed: bound by default, except f1.
Keys == {"a", "ctrl++", "ctrl+-", "ctrl+p", "f1"}

\* Keyboard.initializeDefaultBindings
DefaultBindings ==
    [key \in {"a", "ctrl++", "ctrl+-", "ctrl+p"} |->
        CASE key = "a" -> "PrintChar:a"
          [] key = "ctrl++" -> "VolumeUp"
          [] key = "ctrl+-" -> "VolumeDown"
          [] key = "ctrl+p" -> "MediaPlayer"]

\* The key bindings a keyboard_state.json may hold when the keyboard is built
\* (EmptyMap: no file, or a file without bindings).
StateFiles == {EmptyMap, [key \in {"f1"} |-> "VolumeUp"]}

\* KeyboardStateSaver.loadState: every binding of the file is set.
loadState(bindings, file) ==
    [key \in DOMAIN bindings \cup DOMAIN file |->
        IF key \in DOMAIN file THEN file[key] ELSE bindings[key]]

Min(a, b) == IF a < b THEN a ELSE b
Max(a, b) == IF a > b THEN a ELSE b

\* The keyboard as one value, for the operations below.
Keyboard ==
    [keyBindings |-> keyBindings, commandHistory |-> commandHistory,
     currentHistoryIndex |-> currentHistoryIndex, currentText |-> currentText,
     currentVolume |-> currentVolume, isPlaying |-> isPlaying]

\* ICommand.execute of each command class.
execute(k, command) ==
    CASE command = "PrintChar:a" ->
           [k EXCEPT !.currentText = Append(@, "a")]
      [] command = "VolumeUp" ->
           [k EXCEPT !.currentVolume = Min(100, @ + 20)]
      [] command = "VolumeDown" ->
           [k EXCEPT !.currentVolume = Max(0, @ - 20)]
      [] command = "MediaPlayer" ->
           [k EXCEPT !.isPlaying = TRUE]

\* ICommand.undo of each command class.
undoCommand(k, command) ==
    CASE command = "PrintChar:a" ->
           IF Len(k.currentText) > 0
           THEN [k EXCEPT !.currentText = SubSeq(@, 1, Len(@) - 1)]
           ELSE k
      [] command = "VolumeUp" ->
           [k EXCEPT !.currentVolume = Max(0, @ - 20)]
      [] command = "VolumeDown" ->
           [k EXCEPT !.currentVolume = Min(100, @ + 20)]
      [] command = "MediaPlayer" ->
           [k EXCEPT !.isPlaying = FALSE]

\* Mutant of Pressed: the history is not cut at the current index.
PressedAppending(k, key) ==
    IF MapHas(k.keyBindings, key)
    THEN LET command == k.keyBindings[key]
             run == execute(k, command)
         IN  [run EXCEPT !.commandHistory = Append(@, command),
                         !.currentHistoryIndex = @ + 1]
    ELSE k

\* Keyboard.pressKey(key): the keyboard after the call.
Pressed(k, key) ==
    IF MapHas(k.keyBindings, key)
    THEN LET command == k.keyBindings[key]
             sliced == [k EXCEPT !.commandHistory =
                                    SubSeq(@, 1, k.currentHistoryIndex + 1)]
             run == execute(sliced, command)
         IN  [run EXCEPT !.commandHistory = Append(@, command),
                         !.currentHistoryIndex = @ + 1]
    ELSE k

\* Keyboard.undo(): the keyboard after the call.
Undone(k) ==
    IF k.currentHistoryIndex >= 0
    THEN LET command == k.commandHistory[k.currentHistoryIndex + 1]
         IN  [undoCommand(k, command) EXCEPT !.currentHistoryIndex = @ - 1]
    ELSE k

\* Keyboard.redo(): the keyboard after the call.
Redone(k) ==
    IF k.currentHistoryIndex < Len(k.commandHistory) - 1
    THEN LET moved == [k EXCEPT !.currentHistoryIndex = @ + 1]
         IN  execute(moved, moved.commandHistory[moved.currentHistoryIndex + 1])
    ELSE k

\* The keyboard's variables take the fields of k.
KeyboardBecomes(k) ==
    /\ keyBindings' = k.keyBindings
    /\ commandHistory' = k.commandHistory
    /\ currentHistoryIndex' = k.currentHistoryIndex
    /\ currentText' = k.currentText
    /\ currentVolume' = k.currentVolume
    /\ isPlaying' = k.isPlaying

\* new Keyboard() with no keyboard_state.json, and the static fields of
\* VolumeManager and MediaPlayerCommand as initialized.
KeyboardFresh ==
    /\ keyBindings = DefaultBindings
    /\ commandHistory = << >>
    /\ currentHistoryIndex = -1
    /\ currentText = << >>
    /\ currentVolume = 50
    /\ isPlaying = FALSE

\* new Keyboard(): default bindings, then those of the state file.
KeyboardInit ==
    /\ InjectorFresh
    /\ NotifyFresh
    /\ RepositoryFresh
    /\ \E file \in StateFiles : keyBindings = loadState(DefaultBindings, file)
    /\ commandHistory = << >>
    /\ currentHistoryIndex = -1
    /\ currentText = << >>
    /\ currentVolume = 50
    /\ isPlaying = FALSE

\* keyboard.setKeyBinding(key, commandFactory)
setKeyBinding(key, commandFactory) ==
    /\ KeyboardBecomes([Keyboard EXCEPT
                           !.keyBindings = MapSet(@, key, commandFactory)])
    /\ UNCHANGED <<injectorVars, notifyVars, repositoryVars>>

\* keyboard.pressKey(key)
pressKey(key) ==
    /\ Len(Pressed(Keyboard, key).commandHistory) <= MaxHistory
    /\ KeyboardBecomes(Pressed(Keyboard, key))
    /\ UNCHANGED <<injectorVars, notifyVars, repositoryVars>>

\* keyboard.undo()
undo ==
    /\ KeyboardBecomes(Undone(Keyboard))
    /\ UNCHANGED <<injectorVars, notifyVars, repositoryVars>>

\* keyboard.redo()
redo ==
    /\ KeyboardBecomes(Redone(Keyboard))
    /\ UNCHANGED <<injectorVars, notifyVars, repositoryVars>>

KeyboardNext ==
    \/ \E key \in {"f1"}, commandFactory \in {"PrintChar:a", "MediaPlayer"} :
          setKeyBinding(key, commandFactory)
    \/ \E key \in Keys : pressKey(key)
    \/ undo
    \/ redo

SpecKeyboard == KeyboardInit /\ [][KeyboardNext]_vars

(* ------------------------- observable user object ----------------------- *)

\* The values assigned to user.name and user.age.
Names == {"Jack", "John"}
Ages == {10, 25, 150}

\* Property-changed listeners (LogListener instances) and property-changing
\* listeners: an AgeValidator, and a caller's listener that refuses an age
\* under 18.
ChangedListeners == {"logger", "auditLogger"}
ChangingListeners == {"validator", "adultsOnly"}

\* IPropertyChangingListener.onPropertyChanging of each listener.
onPropertyChanging(listener, propertyName, oldValue, newValue) ==
    CASE listener = "validator" ->
           ~(propertyName = "age" /\ (newValue < 0 \/ newValue > 100))
      [] listener = "adultsOnly" ->
           ~(propertyName = "age" /\ newValue < 18)

\* One listener call, as recorded in calls.
Call(listener, kind, propertyName, result) ==
    [listener |-> listener, kind |-> kind, propertyName |-> propertyName,
     result |-> result]

\* Mutant of canChangeProperty: every listener is consulted before the
\* verdict.
RECURSIVE canChangePropertyAskingAll(_, _, _, _, _, _)
canChangePropertyAskingAll(listeners, i, propertyName, oldValue, newValue, acc) ==
    IF i > Len(listeners)
    THEN [ok |-> \A k \in DOMAIN acc : acc[k].result, calls |-> acc]
    ELSE LET result == onPropertyChanging(listeners[i], propertyName,
                                          oldValue, newValue)
         IN  canChangePropertyAskingAll(listeners, i + 1, propertyName, oldValue,
                 newValue,
                 Append(acc, Call(listeners[i], "changing", propertyName, result)))

\* NotifyDataChanging.canChangeProperty, from the i-th listener on: the
\* verdict and the listener calls made.
RECURSIVE canChangeProperty(_, _, _, _, _, _)
canChangeProperty(listeners, i, propertyName, oldValue, newValue, acc) ==
    IF i > Len(listeners)
    THEN [ok |-> TRUE, calls |-> acc]
    ELSE LET result == onPropertyChanging(listeners[i], propertyName,
                                          oldValue, newValue)
             made == Append(acc, Call(listeners[i], "changing", propertyName,
                                      result))
         IN  IF ~result
             THEN [ok |-> FALSE, calls |-> made]
             ELSE canChangeProperty(listeners, i + 1, propertyName, oldValue,
                                    newValue, made)

\* NotifyDataChanged.notifyPropertyChanged: the listener calls made.
notifyPropertyChanged(listeners, propertyName, newValue) ==
    [k \in 1..Len(listeners) |-> Call(listeners[k], "changed", propertyName, TRUE)]

\* NotifyDataChanging.setProperty: the value returned and the listener calls
\* made.
setProperty(propertyName, currentValue, newValue) ==
    IF currentValue = newValue
    THEN [value |-> currentValue, calls |-> << >>]
    ELSE LET can == canChangeProperty(propertyChangingListeners, 1, propertyName,
                                      currentValue, newValue, << >>)
         IN  IF ~can.ok
             THEN [value |-> currentValue, calls |-> can.calls]
             ELSE [value |-> newValue,
                   calls |-> can.calls \o
                             notifyPropertyChanged(propertyChangedListeners,
                                                   propertyName, newValue)]

\* Array.prototype.indexOf followed by splice(index, 1).
RemoveFirst(listeners, listener) ==
    IF \E k \in DOMAIN listeners : listeners[k] = listener
    THEN LET index == CHOOSE k \in DOMAIN listeners :
                         /\ listeners[k] = listener
                         /\ \A j \in 1..(k - 1) : listeners[j] # listener
         IN  SubSeq(listeners, 1, index - 1)
                \o SubSeq(listeners, index + 1, Len(listeners))
    ELSE listeners

\* const user = new User()
NotifyInit ==
    /\ InjectorFresh
    /\ KeyboardFresh
    /\ RepositoryFresh
    /\ NotifyFresh

addPropertyChangedListener(listener) ==
    /\ Len(propertyChangedListeners) < MaxListeners
    /\ propertyChangedListeners' = Append(propertyChangedListeners, listener)
    /\ calls' = << >>
    /\ UNCHANGED <<name, age, propertyChangingListeners>>
    /\ UNCHANGED <<injectorVars, keyboardVars, repositoryVars>>

removePropertyChangedListener(listener) ==
    /\ propertyChangedListeners' = RemoveFirst(propertyChangedListeners, listener)
    /\ calls' = << >>
    /\ UNCHANGED <<name, age, propertyChangingListeners>>
    /\ UNCHANGED <<injectorVars, keyboardVars, repositoryVars>>

addPropertyChangingListener(listener) ==
    /\ Len(propertyChangingListeners) < MaxListeners
    /\ propertyChangingListeners' = Append(propertyChangingListeners, listener)
    /\ calls' = << >>
    /\ UNCHANGED <<name, age, propertyChangedListeners>>
    /\ UNCHANGED <<injectorVars, keyboardVars, repositoryVars>>

removePropertyChangingListener(listener) ==
    /\ propertyChangingListeners' = RemoveFirst(propertyChangingListeners, listener)
    /\ calls' = << >>
    /\ UNCHANGED <<name, age, propertyChangedListeners>>
    /\ UNCHANGED <<injectorVars, keyboardVars, repositoryVars>>

\* user.name = value
setName(value) ==
    LET r == setProperty("name", name, value)
    IN  /\ name' = r.value
        /\ calls' = r.calls
        /\ UNCHANGED <<age, propertyChangedListeners, propertyChangingListeners>>
        /\ UNCHANGED <<injectorVars, keyboardVars, repositoryVars>>

\* user.age = value
setAge(value) ==
    LET r == setProperty("age", age, value)
    IN  /\ age' = r.value
        /\ calls' = r.calls
        /\ UNCHANGED <<name, propertyChangedListeners, propertyChangingListeners>>
        /\ UNCHANGED <<injectorVars, keyboardVars, repositoryVars>>

NotifyNext ==
    \/ \E listener \in ChangedListeners : addPropertyChangedListener(listener)
    \/ \E listener \in ChangedListeners : removePropertyChangedListener(listener)
    \/ \E listener \in ChangingListeners : addPropertyChangingListener(listener)
    \/ \E listener \in ChangingListeners : removePropertyChangingListener(listener)
    \/ \E value \in Names : setName(value)
    \/ \E value \in Ages : setAge(value)

SpecNotify == NotifyInit /\ [][NotifyNext]_vars

(* ----------------------------- data repository -------------------------- *)

\* The items handed to the repository: an id and the rest of the item.
Ids == 1..MaxId
ItemNames == {"Ann", "Bob"}
Items == [id : Ids, name : ItemNames]

\* serializer.serialize and serializer.deserialize: the items as their
\* field values, and back.
serialize(list) == [k \in DOMAIN list |-> <<list[k].id, list[k].name>>]
deserialize(data) == [k \in DOMAIN data |-> [id |-> data[k][1], name |-> data[k][2]]]

\* A file holding the serialized list.
FileOf(list) == [exists |-> TRUE, data |-> serialize(list)]

\* DataRepository.loadFromFile.
loadFromFile(file) == IF file.exists THEN deserialize(file.data) ELSE << >>

\* No two items of the list share an id.
UniqueIds(list) ==
    \A j, k \in DOMAIN list : list[j].id = list[k].id => j = k

\* The files a repository is opened on: none, or one whose items have unique
\* ids.
InitialFiles ==
    {NoFile} \cup
    {FileOf(list) : list \in {l \in UNION {[1..n -> Items] : n \in 0..2} :
                                 UniqueIds(l)}}

\* Array.prototype.findIndex on the id; 0 stands for -1.
findIndex(list, id) ==
    IF \E k \in DOMAIN list : list[k].id = id
    THEN CHOOSE k \in DOMAIN list :
            /\ list[k].id = id
            /\ \A j \in 1..(k - 1) : list[j].id # id
    ELSE 0

\* Mutant of Added: the item is pushed without the check for its id.
AddedUnchecked(list, item) == Append(list, item)

\* The item list after DataRepository.add(item).
Added(list, item) ==
    IF ~(\E k \in DOMAIN list : list[k].id = item.id)
    THEN Append(list, item)
    ELSE list

\* The item list after DataRepository.update(item).
Updated(list, item) ==
    LET index == findIndex(list, item.id)
    IN  IF index # 0 THEN [list EXCEPT ![index] = item] ELSE list

\* The item list after DataRepository.delete(item).
Deleted(list, item) ==
    LET index == findIndex(list, item.id)
    IN  IF index # 0
        THEN SubSeq(list, 1, index - 1) \o SubSeq(list, index + 1, Len(list))
        ELSE list

\* DataRepository.saveToFile after the list became `list`: the file is
\* written, or the write fails and the error is only logged.
saveToFile(list) ==
    \/ storedData' = FileOf(list)
    \/ storedData' = storedData

\* new DataRepository(filePath, serializer)
RepositoryInit ==
    /\ InjectorFresh
    /\ KeyboardFresh
    /\ NotifyFresh
    /\ storedData \in InitialFiles
    /\ items = loadFromFile(storedData)

add(item) ==
    /\ items' = Added(items, item)
    /\ IF ~(\E k \in DOMAIN items : items[k].id = item.id)
       THEN saveToFile(items')
       ELSE UNCHANGED storedData
    /\ UNCHANGED <<injectorVars, keyboardVars, notifyVars>>

update(item) ==
    /\ items' = Updated(items, item)
    /\ IF findIndex(items, item.id) # 0
       THEN saveToFile(items')
       ELSE UNCHANGED storedData
    /\ UNCHANGED <<injectorVars, keyboardVars, notifyVars>>

delete(item) ==
    /\ items' = Deleted(items, item)
    /\ IF findIndex(items, item.id) # 0
       THEN saveToFile(items')
       ELSE UNCHANGED storedData
    /\ UNCHANGED <<injectorVars, keyboardVars, notifyVars>>

RepositoryNext ==
    \/ \E item \in Items : add(item)
    \/ \E item \in Items : update(item)
    \/ \E item \in Items : delete(item)

SpecRepository == RepositoryInit /\ [][RepositoryNext]_vars

(* ------------------------------ actions -------------------------------- *)

Init ==
    /\ container = EmptyMap
    /\ singletons = EmptyMap
    /\ scopes = << >>
    /\ heap = << >>
    /\ log = << >>
    /\ nRegs = 0
    /\ KeyboardFresh
    /\ NotifyFresh
    /\ RepositoryFresh

\* Mutant of register: registering a token evicts its singleton cache entry.
registerEvicting(token, classType, lifestyle, dependencies, constructorParams) ==
    /\ nRegs < MaxRegs
    /\ container' = MapSet(container, token,
            [implementation |-> classType, lifestyle |-> lifestyle,
             dependencies |-> dependencies,
             constructorParams |-> constructorParams, factory |-> Undefined])
    /\ singletons' = [t \in DOMAIN singletons \ {token} |-> singletons[t]]
    /\ nRegs' = nRegs + 1
    /\ log' = << >>
    /\ UNCHANGED <<scopes, heap>>
    /\ UNCHANGED labVars

\* injector.register(token, classType, lifestyle, dependencies, constructorParams)
register(token, classType, lifestyle, dependencies, constructorParams) ==
    /\ nRegs < MaxRegs
    /\ container' = MapSet(container, token,
            [implementation |-> classType, lifestyle |-> lifestyle,
             dependencies |-> dependencies,
             constructorParams |-> constructorParams, factory |-> Undefined])
    /\ nRegs' = nRegs + 1
    /\ log' = << >>
    /\ UNCHANGED <<singletons, scopes, heap>>
    /\ UNCHANGED labVars

\* Mutant of registerFactory: the new fields are merged into the prior entry.
registerFactoryMerging(token, factory, lifestyle) ==
    /\ nRegs < MaxRegs
    /\ container' = MapSet(container, token,
            IF MapHas(container, token)
            THEN [container[token] EXCEPT !.lifestyle = lifestyle,
                                          !.factory = factory]
            ELSE [implementation |-> Null, lifestyle |-> lifestyle,
                  dependencies |-> << >>, constructorParams |-> << >>,
                  factory |-> factory])
    /\ nRegs' = nRegs + 1
    /\ log' = << >>
    /\ UNCHANGED <<singletons, scopes, heap>>
    /\ UNCHANGED labVars

\* injector.registerFactory(token, factory, lifestyle)
registerFactory(token, factory, lifestyle) ==
    /\ nRegs < MaxRegs
    /\ container' = MapSet(container, token,
            [implementation |-> Null, lifestyle |-> lifestyle,
             dependencies |-> << >>, constructorParams |-> << >>,
             factory |-> factory])
    /\ nRegs' = nRegs + 1
    /\ log' = << >>
    /\ UNCHANGED <<singletons, scopes, heap>>
    /\ UNCHANGED labVars

\* Mutant of createScope: the new handle starts from the latest scope's cache.
createScopePooled ==
    /\ Len(scopes) < MaxScopes
    /\ scopes' = Append(scopes, IF scopes = << >> THEN EmptyMap
                                                  ELSE scopes[Len(scopes)])
    /\ log' = << >>
    /\ UNCHANGED <<container, singletons, heap, nRegs>>
    /\ UNCHANGED labVars

\* Mutant of DefaultLifestyle: an omitted lifestyle means Singleton.
DefaultLifestyleSingleton == "Singleton"

\* The default values of the optional parameters of register and
\* registerFactory.
DefaultLifestyle == "PerRequest"
DefaultDependencies == << >>
DefaultConstructorParams == << >>

\* The k-th of the optional arguments a call passes, or the parameter's
\* default when the call passes fewer.
Arg(optional, k, default) ==
    IF k <= Len(optional) THEN optional[k] ELSE default

\* A call injector.register(token, classType, ...optional): the parameters
\* the call leaves out take their defaults.
registerCall(token, classType, optional) ==
    register(token, classType, Arg(optional, 1, DefaultLifestyle),
             Arg(optional, 2, DefaultDependencies),
             Arg(optional, 3, DefaultConstructorParams))

\* A call injector.registerFactory(token, factory, ...optional).
registerFactoryCall(token, factory, optional) ==
    registerFactory(token, factory, Arg(optional, 1, DefaultLifestyle))

\* injector.createScope(): a handle bound to a new, empty scopeCache
createScope ==
    /\ Len(scopes) < MaxScopes
    /\ scopes' = Append(scopes, EmptyMap)
    /\ log' = << >>
    /\ UNCHANGED <<container, singletons, heap, nRegs>>
    /\ UNCHANGED labVars

\* Mutant of Resolve: a failed resolution restores both caches.
ResolveRollingBack(token, sc) ==
    LET r == getInstance(World, token, sc, 1)
    IN  /\ Len(r.w.heap) <= MaxObjects
        /\ singletons' = IF r.ok THEN r.w.singletons ELSE singletons
        /\ scopes' = IF r.ok THEN r.w.scopes ELSE scopes
        /\ heap' = r.w.heap
        /\ log' = r.w.log
        /\ UNCHANGED <<container, nRegs>>
        /\ UNCHANGED labVars

\* A caller's resolution of token with scope context sc: sc = NoScope is
\* injector.getInstance(token), sc = s is the s-th handle's resolve(token).
Resolve(token, sc) ==
    LET r == getInstance(World, token, sc, 1)
    IN  /\ Len(r.w.heap) <= MaxObjects
        /\ singletons' = r.w.singletons
        /\ scopes' = r.w.scopes
        /\ heap' = r.w.heap
        /\ log' = r.w.log
        /\ UNCHANGED <<container, nRegs>>
        /\ UNCHANGED labVars

Next ==
    \/ \E token \in Tokens : \E recipe \in CtorRecipes(token), lifestyle \in LifeStyle :
          register(token, recipe.classType, lifestyle, recipe.dependencies,
                   recipe.constructorParams)
    \/ \E token \in Tokens : \E factory \in Factories(token), lifestyle \in LifeStyle :
          registerFactory(token, factory, lifestyle)
    \/ createScope
    \/ \E token \in Tokens : Resolve(token, NoScope)
    \/ \E token \in Tokens, s \in 1..Len(scopes) : Resolve(token, s)

Spec == Init /\ [][Next]_vars

\* The container used with builders that throw or re-enter it as well.
NextBuilders ==
    \/ Next
    \/ \E token \in Tokens : \E recipe \in FailingRecipes(token), lifestyle \in LifeStyle :
          register(token, recipe.classType, lifestyle, recipe.dependencies,
                   recipe.constructorParams)
    \/ \E token \in Tokens :
          \E factory \in FailingFactories(token) \cup ReentrantFactories(token),
             lifestyle \in LifeStyle :
                registerFactory(token, factory, lifestyle)

SpecBuilders == Init /\ [][NextBuilders]_vars

\* The container used with calls that leave the optional arguments out as well.
NextDefaults ==
    \/ Next
    \/ \E token \in Tokens : \E classType \in PlainClasses(token) :
          registerCall(token, classType, << >>)
    \/ \E token \in Tokens : \E factory \in PlainFactories(token) :
          registerFactoryCall(token, factory, << >>)

SpecDefaults == Init /\ [][NextDefaults]_vars

\* The container used with a lifestyle value outside the enum as well.
NextLifeStyles ==
    \/ Next
    \/ \E token \in {"IStorage"} :
          \E recipe \in CtorRecipes(token), lifestyle \in OtherLifeStyles :
             register(token, recipe.classType, lifestyle, recipe.dependencies,
                      recipe.constructorParams)

SpecLifeStyles == Init /\ [][NextLifeStyles]_vars

(* ------------------------------ properties ----------------------------- *)

Range(f) == {f[x] : x \in DOMAIN f}

\* The top-level call of the latest resolution (the last to return).
Top == log[Len(log)]

\* Every object ever built for token under a Registration of the lifestyle.
Instances(token, lifestyle) ==
    {o \in DOMAIN heap : /\ heap[o].token = token
                         /\ heap[o].registration.lifestyle = lifestyle}

\* Every object some cache holds.
Cached == Range(singletons) \cup UNION {Range(scopes[s]) : s \in DOMAIN scopes}

\* C1: every successful resolution of a Singleton-lifetime token, direct or
\* through any scope handle, top-level or nested, returns the entry of the
\* singleton cache, which is the only instance ever built for that token
\* under Singleton lifetime; so at most one such instance ever exists.
C1_SingletonIdentity ==
    /\ \A e \in Range(log) :
          e.ok /\ e.lifestyle = "Singleton" =>
             /\ MapHas(singletons, e.token)
             /\ singletons[e.token] = e.val
             /\ Instances(e.token, "Singleton") = {e.val}
    /\ \A token \in Tokens : Cardinality(Instances(token, "Singleton")) <= 1

\* A Singleton token resolved again, through the second scope handle, after
\* its instance was built: the cached instance comes back.
C1_Witness ==
    /\ Len(scopes) = 2
    /\ log # << >>
    /\ Top.ok /\ Top.lifestyle = "Singleton" /\ Top.sc = 2
    /\ Top.val <= Top.before

\* C2: every successful resolution of a Scoped-lifetime token through a scope
\* handle returns that scope's cache entry, the only instance ever built for
\* the token in that scope; two distinct scopes never hold the same instance.
C2_ScopedIdentity ==
    /\ \A e \in Range(log) :
          e.ok /\ e.lifestyle = "Scoped" =>
             /\ e.sc \in DOMAIN scopes
             /\ MapHas(scopes[e.sc], e.token)
             /\ scopes[e.sc][e.token] = e.val
             /\ {o \in Instances(e.token, "Scoped") : heap[o].owner = e.sc} = {e.val}
    /\ \A s1, s2 \in DOMAIN scopes : \A token \in Tokens :
          s1 # s2 /\ MapHas(scopes[s1], token) /\ MapHas(scopes[s2], token) =>
             scopes[s1][token] # scopes[s2][token]

\* A Scoped token resolved in both scopes, and again in one of them.
C2_Witness ==
    /\ Len(scopes) = 2
    /\ log # << >>
    /\ Top.ok /\ Top.lifestyle = "Scoped" /\ Top.val <= Top.before
    /\ MapHas(scopes[1], Top.token) /\ MapHas(scopes[2], Top.token)

\* C3: every successful resolution of a PerRequest-lifetime token returns an
\* object built during that very call (it did not exist when the call began,
\* so it differs from every instance returned before), built for that token,
\* held in no cache, and distinct from what every other call returned.
C3_PerRequestFresh ==
    \A i \in DOMAIN log :
       log[i].ok /\ log[i].lifestyle = "PerRequest" =>
          /\ log[i].val > log[i].before
          /\ log[i].val = log[i].after
          /\ heap[log[i].val].token = log[i].token
          /\ log[i].val \notin Cached
          /\ \A j \in DOMAIN log \ {i} : log[j].ok => log[j].val # log[i].val

\* The third resolution, outside any scope, of a PerRequest token.
C3_Witness ==
    /\ log # << >>
    /\ Top.ok /\ Top.lifestyle = "PerRequest" /\ Top.sc = NoScope
    /\ Cardinality(Instances(Top.token, "PerRequest")) >= 3

\* C4: a getInstance call on a Scoped-lifetime token with no scope context,
\* top-level or nested, throws NoActiveScope: it returns no instance, builds
\* none and writes no cache, and the error reaches the top-level caller; no
\* Scoped instance is ever built outside a scope or kept as a singleton.
C4_ScopedNeedsScope ==
    /\ \A e \in Range(log) :
          e.lifestyle = "Scoped" /\ e.sc = NoScope =>
             /\ ~e.ok /\ e.err = NoActiveScope /\ e.val = 0
             /\ e.after = e.before
             /\ ~e.wroteSingletons /\ ~e.wroteScopes
             /\ ~Top.ok /\ Top.err = NoActiveScope
    /\ \A o \in DOMAIN heap :
          heap[o].registration.lifestyle = "Scoped" =>
             /\ heap[o].owner # NoScope
             /\ o \notin Range(singletons)

\* A direct resolution that reached a Scoped dependency one level down.
C4_Witness ==
    \E i \in DOMAIN log :
       /\ log[i].lifestyle = "Scoped" /\ log[i].sc = NoScope
       /\ log[i].depth = 2

\* C5: a getInstance call on a token with no Registration, direct or through
\* a scope handle, top-level or nested, throws NotRegistered and builds
\* nothing; when it is reached as a dependency, the top-level resolution
\* fails with NotRegistered and returns no object.
C5_NotRegistered ==
    /\ \A e \in Range(log) :
          e.depth <= MaxStack /\ ~MapHas(container, e.token) =>
             /\ ~e.ok /\ e.err = NotRegistered /\ e.val = 0
             /\ e.after = e.before
    /\ (\E e \in Range(log) : e.err = NotRegistered) =>
          ~Top.ok /\ Top.err = NotRegistered /\ Top.val = 0

\* A resolution through a scope handle that reached an unregistered
\* dependency one level down.
C5_Witness ==
    \E i \in DOMAIN log :
       /\ ~MapHas(container, log[i].token)
       /\ log[i].depth = 2 /\ log[i].sc # NoScope

\* The calls made directly by call i of the log (its dependencies), as log
\* indices: the calls one level deeper that returned after the previous call
\* of i's level or above and before i.
Children(i) ==
    {j \in 1..(i - 1) :
        /\ log[j].depth = log[i].depth + 1
        /\ \A k \in (j + 1)..(i - 1) : log[k].depth > log[i].depth}

\* The k-th child of call i, in call order.
Child(i, k) ==
    CHOOSE j \in Children(i) : Cardinality({x \in Children(i) : x < j}) = k - 1

\* C6: a call that builds from a constructor-style Registration resolves
\* exactly the declared dependency tokens, in declared order, builds exactly
\* one object after the last of them, and hands its builder the resolved
\* dependencies in that order followed by the literal parameters in order.
C6_BuilderArguments ==
    \A i \in DOMAIN log :
       LET e == log[i]
           registration == container[e.token]
           n == Cardinality(Children(i))
       IN  e.ok /\ e.val > e.before /\ registration.factory = Undefined =>
              /\ [k \in 1..n |-> log[Child(i, k)].token] = registration.dependencies
              /\ \A k \in 1..n : log[Child(i, k)].ok
              /\ heap[e.val].args =
                    [k \in 1..n |-> Ref(log[Child(i, k)].val)]
                       \o registration.constructorParams
              /\ e.val = e.after
              /\ e.after = (IF n = 0 THEN e.before ELSE log[Child(i, n)].after) + 1

\* A build with two dependencies and two literal parameters.
C6_Witness ==
    /\ log # << >>
    /\ Top.ok /\ Top.val > Top.before
    /\ Len(container[Top.token].dependencies) = 2
    /\ Len(container[Top.token].constructorParams) = 2
    /\ Len(heap[Top.val].args) = 4

\* C7 (as claimed): every instance a resolution returns was produced by the
\* Registration the registry holds for its token at that moment, so nothing
\* of an earlier, overwritten Registration is ever observed.
C7_OverwriteReplacesEntirely ==
    \A e \in Range(log) :
       e.ok => heap[e.val].registration = container[e.token]

\* C7 (amended): every resolution is dispatched under the lifetime of the
\* Registration the registry holds, and an instance it builds comes from that
\* Registration; an instance that existed before the call is returned only
\* from the singleton cache under Singleton lifetime, or from the resolving
\* scope's cache under Scoped lifetime, whichever Registration built it.
C7_OverwriteKeepsCachedInstances ==
    \A e \in Range(log) :
       e.ok =>
          /\ e.lifestyle = container[e.token].lifestyle
          /\ \/ /\ e.val > e.before
                /\ heap[e.val].token = e.token
                /\ heap[e.val].registration = container[e.token]
             \/ /\ e.val <= e.before
                /\ e.lifestyle = "Singleton"
                /\ MapHas(singletons, e.token) /\ singletons[e.token] = e.val
             \/ /\ e.val <= e.before
                /\ e.lifestyle = "Scoped" /\ e.sc # NoScope
                /\ MapHas(scopes[e.sc], e.token) /\ scopes[e.sc][e.token] = e.val

\* A token registered again after an instance of it was built, and resolved
\* since: the latest resolution built a new instance from the latest
\* Registration while an instance of the earlier one still exists.
C7_Witness ==
    /\ log # << >>
    /\ Top.ok /\ Top.val > Top.before
    /\ \E o \in DOMAIN heap :
          /\ heap[o].token = Top.token
          /\ heap[o].registration # container[Top.token]

\* The outcome of a resolution as its caller sees it.
Outcome(r) == [ok |-> r.ok, err |-> r.err]

\* C8 (as claimed): in every state, resolving a Singleton-lifetime token with
\* no scope and through any scope handle gives the same outcome (the same
\* instance when one is cached, success or the same error otherwise) and
\* leaves every Scope cache as it was; no call on a Singleton token in the
\* log wrote a Scope cache.
C8_SingletonIgnoresScope ==
    /\ \A token \in DOMAIN container :
          container[token].lifestyle = "Singleton" =>
             \A s \in DOMAIN scopes :
                LET direct == getInstance(World, token, NoScope, 1)
                    scoped == getInstance(World, token, s, 1)
                IN  /\ Outcome(scoped) = Outcome(direct)
                    /\ MapHas(singletons, token) => scoped.val = direct.val
                    /\ scoped.w.scopes = scopes
    /\ \A e \in Range(log) : e.lifestyle = "Singleton" => ~e.wroteScopes

\* Every object reachable from object o through constructor arguments.
RECURSIVE Graph(_, _)
Graph(h, o) ==
    {o} \cup UNION {Graph(h, a.ref) : a \in {x \in Range(h[o].args) : x.ref # 0}}

\* The Scoped-lifetime instances in the object graph of o.
ScopedIn(h, o) == {x \in Graph(h, o) : h[x].registration.lifestyle = "Scoped"}

\* C9: every call of a resolution, at every depth, carries the scope context
\* of the top-level call; and after a successful resolution of a PerRequest
\* token through a scope handle, resolving it again through that handle
\* succeeds with a different top-level instance whose object graph holds the
\* same Scoped instances.
C9_SameScopeAtEveryDepth ==
    /\ \A e \in Range(log) : e.sc = Top.sc
    /\ (log # << >> /\ Top.ok /\ Top.lifestyle = "PerRequest" /\ Top.sc # NoScope) =>
          LET again == getInstance(World, Top.token, Top.sc, 1)
          IN  /\ again.ok
              /\ again.val # Top.val
              /\ ScopedIn(again.w.heap, again.val) = ScopedIn(heap, Top.val)

\* A PerRequest token resolved through a scope handle whose graph holds a
\* Scoped instance two levels down.
C9_Witness ==
    /\ log # << >>
    /\ Top.ok /\ Top.lifestyle = "PerRequest" /\ Top.sc # NoScope
    /\ \E i \in DOMAIN log : log[i].depth = 3 /\ log[i].ok /\ log[i].lifestyle = "Scoped"

\* C10 (as claimed): every Scoped-lifetime instance in the object graph a
\* resolution through scope S returns is the instance S caches for its token.
C10_ConsistentGraph ==
    (log # << >> /\ Top.ok /\ Top.sc # NoScope) =>
       \A x \in ScopedIn(heap, Top.val) :
          /\ MapHas(scopes[Top.sc], heap[x].token)
          /\ scopes[Top.sc][heap[x].token] = x

\* The Singleton-lifetime instances injected into object o, as
\* <<argument position, instance>> pairs.
SingletonArgs(o) ==
    {<<k, heap[o].args[k].ref>> : k \in {x \in DOMAIN heap[o].args :
        /\ heap[o].args[x].ref # 0
        /\ heap[heap[o].args[x].ref].registration.lifestyle = "Singleton"}}

\* C11: two instances built for one Scoped token in two distinct scopes are
\* different objects, each the entry of its own scope's cache when built;
\* every Singleton-lifetime instance injected into either is the entry of the
\* singleton cache for its token, so at the same argument position both hold
\* the identical instance, and a direct resolution of that token while it is
\* registered Singleton returns that very instance.
C11_SingletonSharedAcrossScopes ==
    \A o1, o2 \in DOMAIN heap :
       /\ heap[o1].registration.lifestyle = "Scoped"
       /\ heap[o2].registration.lifestyle = "Scoped"
       /\ heap[o1].token = heap[o2].token
       /\ heap[o1].owner # heap[o2].owner
       => /\ o1 # o2
          /\ \A p1 \in SingletonArgs(o1) :
                LET dep == heap[p1[2]].token
                IN  /\ MapHas(singletons, dep) /\ singletons[dep] = p1[2]
                    /\ \A p2 \in SingletonArgs(o2) :
                          heap[p2[2]].token = dep => p2[2] = p1[2]
                    /\ (MapHas(container, dep)
                          /\ container[dep].lifestyle = "Singleton") =>
                          LET direct == getInstance(World, dep, NoScope, 1)
                          IN  direct.ok /\ direct.val = p1[2]

\* The latest resolution built a Scoped instance in the second scope with a
\* Singleton dependency injected, while the first scope holds its own
\* instance of the same token with the same Singleton injected.
C11_Witness ==
    /\ Len(scopes) = 2
    /\ log # << >>
    /\ Top.ok /\ Top.lifestyle = "Scoped" /\ Top.sc = 2 /\ Top.val > Top.before
    /\ SingletonArgs(Top.val) # {}
    /\ MapHas(scopes[1], Top.token)
    /\ scopes[1][Top.token] # Top.val
    /\ SingletonArgs(scopes[1][Top.token]) = SingletonArgs(Top.val)


\* The world in which every Scope cache other than that of scope s is empty.
WorldOnly(s) ==
    [World EXCEPT !.scopes = [x \in DOMAIN scopes |->
                                 IF x = s THEN scopes[x] ELSE EmptyMap]]

\* C12: a step that adds a scope appends one empty cache and changes neither
\* the registry, the singleton cache, the heap nor any existing Scope cache;
\* a resolution with scope context s leaves every other scope's cache as it
\* was, and has the outcome, the heap and the singleton cache it would have
\* had with every other scope's cache empty.
C12_ScopesIndependent ==
    [][ /\ Len(scopes') > Len(scopes) =>
              /\ scopes' = Append(scopes, EmptyMap)
              /\ container' = container
              /\ singletons' = singletons
              /\ heap' = heap
        /\ log' # << >> =>
              LET t == log'[Len(log')]
                  alone == getInstance(WorldOnly(t.sc), t.token, t.sc, 1)
              IN  /\ \A s \in DOMAIN scopes : s # t.sc => scopes'[s] = scopes[s]
                  /\ alone.ok = t.ok /\ alone.val = t.val /\ alone.err = t.err
                  /\ alone.w.heap = heap'
                  /\ alone.w.singletons = singletons'
      ]_vars

\* The second scope has just built and cached its own instance of a token the
\* first scope already caches.
C12_Witness ==
    /\ Len(scopes) = 2
    /\ log # << >>
    /\ Top.ok /\ Top.sc = 2 /\ Top.val > Top.before
    /\ DOMAIN scopes[2] = {Top.token}
    /\ MapHas(scopes[1], Top.token)
    /\ scopes[1][Top.token] < Top.val


\* The objects produced by factory invocations for token under lifestyle.
FactoryBuilt(token, lifestyle) ==
    {o \in Instances(token, lifestyle) : heap[o].registration.factory # Undefined}

\* C13: a call on a token whose Registration is factory-style resolves no
\* dependency token; when it builds, the factory runs once, with no
\* arguments; under PerRequest every call builds, under Singleton the result
\* is the singleton cache's entry and under Scoped the scope cache's entry;
\* factories of one token run at most once per container under Singleton and
\* at most once per scope under Scoped.
C13_FactoryBuild ==
    /\ \A i \in DOMAIN log :
          LET e == log[i]
          IN  (MapHas(container, e.token) /\ e.depth <= MaxStack
                  /\ container[e.token].factory # Undefined) =>
                 /\ Children(i) = {}
                 /\ e.after <= e.before + 1
                 /\ (e.ok /\ e.val > e.before) =>
                       /\ heap[e.val].args = << >>
                       /\ heap[e.val].registration = container[e.token]
                 /\ e.lifestyle = "PerRequest" => e.ok /\ e.val > e.before
                 /\ (e.ok /\ e.lifestyle = "Singleton") =>
                       /\ MapHas(singletons, e.token)
                       /\ singletons[e.token] = e.val
                 /\ (e.ok /\ e.lifestyle = "Scoped") =>
                       /\ e.sc \in DOMAIN scopes
                       /\ MapHas(scopes[e.sc], e.token)
                       /\ scopes[e.sc][e.token] = e.val
    /\ \A token \in Tokens :
          /\ Cardinality(FactoryBuilt(token, "Singleton")) <= 1
          /\ \A s \in DOMAIN scopes :
                Cardinality({o \in FactoryBuilt(token, "Scoped") :
                                heap[o].owner = s}) <= 1

\* A factory-style Singleton token resolved again after its factory ran: the
\* factory's first result comes back and nothing is built.
C13_Witness ==
    /\ log # << >>
    /\ Top.ok /\ Top.lifestyle = "Singleton" /\ Top.val <= Top.before
    /\ container[Top.token].factory # Undefined
    /\ heap[Top.val].registration.factory # Undefined
    /\ Top.after = Top.before


\* C14: a register or registerFactory step builds nothing and leaves the
\* singleton cache and every Scope cache as they were; every entry of the
\* singleton cache is still there, unchanged, after any step; and an entry
\* that appears for token T was built and returned by a successful call on T
\* under Singleton lifetime during that step's resolution.
C14_SingletonCacheGrowsOnly ==
    [][ /\ nRegs' # nRegs =>
              singletons' = singletons /\ scopes' = scopes /\ heap' = heap
        /\ \A t \in DOMAIN singletons :
              MapHas(singletons', t) /\ singletons'[t] = singletons[t]
        /\ \A t \in DOMAIN singletons' \ DOMAIN singletons :
              \E e \in Range(log') :
                 /\ e.token = t /\ e.ok /\ e.lifestyle = "Singleton"
                 /\ e.val = singletons'[t]
                 /\ e.val > Len(heap)
      ]_vars

\* A token whose singleton entry was cached and which was then registered
\* again as PerRequest: the latest resolution built a new instance and the
\* singleton cache still holds the old entry.
C14_Witness ==
    /\ log # << >>
    /\ Top.ok /\ Top.lifestyle = "PerRequest" /\ Top.val > Top.before
    /\ MapHas(singletons, Top.token)
    /\ singletons[Top.token] < Top.val
    /\ heap[singletons[Top.token]].registration # container[Top.token]


\* C15 (as claimed): at most one instance is ever built for a token under
\* Singleton lifetime, every successful call on a Singleton token within one
\* resolution, the outer one and one issued from inside its builder alike,
\* returns the same instance, the one the singleton cache holds, and no
\* instance once stored in the cache is overwritten.
C15_SingleBuildPerToken ==
    /\ \A token \in Tokens : Cardinality(Instances(token, "Singleton")) <= 1
    /\ \A e \in Range(log) :
          e.ok /\ e.lifestyle = "Singleton" =>
             /\ MapHas(singletons, e.token)
             /\ singletons[e.token] = e.val


\* C16: when a constructor or factory throws during a resolution, the call
\* that ran it and every call waiting on it fail with that same error and
\* return no instance, up to the top-level call; no call returns after the
\* failure except those waiting callers, each level failing once (no retry);
\* and no cache, the singleton cache or any Scope cache, has received an
\* entry for the token of any of the failed calls since that call began.
C16_BuildFailurePropagates ==
    \A i \in DOMAIN log :
       log[i].err = BuildFailure =>
          /\ ~log[i].ok /\ log[i].val = 0
          /\ ~Top.ok /\ Top.err = BuildFailure /\ Top.val = 0
          /\ \A j \in (i + 1)..Len(log) :
                /\ log[j].err = BuildFailure
                /\ log[j].depth < log[i].depth
          /\ MapHas(singletons, log[i].token) =>
                singletons[log[i].token] <= log[i].before
          /\ \A s \in DOMAIN scopes :
                MapHas(scopes[s], log[i].token) =>
                   scopes[s][log[i].token] <= log[i].before

\* A Singleton token whose constructor threw after its dependency had been
\* built: the resolution failed and the token has no singleton entry.
C16_Witness ==
    /\ log # << >>
    /\ Top.err = BuildFailure /\ Top.lifestyle = "Singleton"
    /\ Top.after > Top.before
    /\ ~MapHas(singletons, Top.token)
    /\ \E i \in DOMAIN log : log[i].depth = 2 /\ log[i].ok

\* The dependency tokens the registry declares for token.
Deps(token) ==
    IF MapHas(container, token) THEN Range(container[token].dependencies) ELSE {}

\* The tokens reachable from the set T in at most n dependency steps.
RECURSIVE Reach(_, _)
Reach(T, n) ==
    IF n = 0 THEN T ELSE Reach(T \cup UNION {Deps(t) : t \in T}, n - 1)

\* token depends, transitively, on itself.
Cyclic(token) == token \in Reach(Deps(token), Cardinality(Tokens))

\* The call on token with scope context sc finds no usable cache entry and no
\* missing scope in its way: it has to build.
MustBuild(e) ==
    \/ e.lifestyle = "PerRequest"
    \/ e.lifestyle = "Singleton" /\ ~MapHas(singletons, e.token)
    \/ e.lifestyle = "Scoped" /\ e.sc # NoScope /\ ~MapHas(scopes[e.sc], e.token)

Acyclic(token) ==
    \A t \in Reach({token}, Cardinality(Tokens)) : ~Cyclic(t)

\* The getInstance calls a resolution of token makes at most, when every call
\* has to build: itself, and for each declared dependency its own calls; a
\* re-entrant factory makes one call more.
RECURSIVE CallBound(_, _)
RECURSIVE CallBoundOver(_, _, _)
CallBoundOver(dependencies, k, fuel) ==
    IF k > Len(dependencies)
    THEN 0
    ELSE CallBound(dependencies[k], fuel) + CallBoundOver(dependencies, k + 1, fuel)

CallBound(token, fuel) ==
    IF fuel = 0 \/ ~MapHas(container, token)
    THEN 1
    ELSE IF container[token].factory \in ReentrantFactories(token)
    THEN 2
    ELSE 1 + CallBoundOver(container[token].dependencies, 1, fuel - 1)

\* C18: a resolution of a token from which no cycle is reachable either
\* returns an object of the heap or fails with NotRegistered, NoActiveScope
\* or the builder's error, never with the exhausted call stack; its nesting
\* is no deeper than the number of tokens and it makes no more calls than the
\* declared dependencies add up to; and every call on a constructor-style
\* Registration resolves its declared dependencies in order, each at most
\* once, stopping at the first that fails, and all of them exactly once when
\* it succeeds in building.
C18_AcyclicResolutionCompletes ==
    (log # << >> /\ Acyclic(Top.token)) =>
       /\ \/ Top.ok /\ Top.val \in DOMAIN heap
          \/ ~Top.ok /\ Top.err \in {NotRegistered, NoActiveScope, BuildFailure}
       /\ \A e \in Range(log) : e.depth <= Cardinality(Tokens)
       /\ Len(log) <= CallBound(Top.token, Cardinality(Tokens))
       /\ \A i \in DOMAIN log :
             LET e == log[i]
                 n == Cardinality(Children(i))
             IN  (MapHas(container, e.token)
                     /\ container[e.token].factory = Undefined) =>
                    LET dependencies == container[e.token].dependencies
                    IN  /\ n <= Len(dependencies)
                        /\ [k \in 1..n |-> log[Child(i, k)].token] =
                              SubSeq(dependencies, 1, n)
                        /\ \A k \in 1..(n - 1) : log[Child(i, k)].ok
                        /\ (n < Len(dependencies) /\ n > 0) => ~log[Child(i, n)].ok
                        /\ (e.ok /\ e.val > e.before) => n = Len(dependencies)

\* A resolution that built a token with two dependencies, one of which has a
\* dependency of its own: four calls, three levels deep.
C18_Witness ==
    /\ log # << >>
    /\ Acyclic(Top.token)
    /\ Top.ok /\ Top.val > Top.before
    /\ Len(log) = 4
    /\ \E e \in Range(log) : e.depth = 3


\* The Registration a register call stores for a recipe and a lifestyle, and
\* the one a registerFactory call stores for a factory and a lifestyle: each
\* is made of the call's arguments alone.
Registered(token) ==
    {[implementation |-> recipe.classType, lifestyle |-> lifestyle,
      dependencies |-> recipe.dependencies,
      constructorParams |-> recipe.constructorParams, factory |-> Undefined] :
        recipe \in CtorRecipes(token), lifestyle \in LifeStyle}
    \cup
    {[implementation |-> Null, lifestyle |-> lifestyle, dependencies |-> << >>,
      constructorParams |-> << >>, factory |-> factory] :
        factory \in Factories(token), lifestyle \in LifeStyle}

\* C19: a register or registerFactory step changes the registry at exactly
\* one token, whose new entry is made of that call's arguments alone (nothing
\* of the prior entry is merged in), keeps every other token's Registration,
\* and leaves the singleton cache and every Scope cache unchanged; every
\* other step (a resolution, createScope) leaves the registry unchanged.
C19_RegistrationReplacedWholesale ==
    [][ /\ nRegs' # nRegs =>
              /\ \E token \in Tokens :
                    /\ DOMAIN container' = DOMAIN container \cup {token}
                    /\ container'[token] \in Registered(token)
                    /\ \A other \in DOMAIN container \ {token} :
                          container'[other] = container[other]
              /\ singletons' = singletons
              /\ scopes' = scopes
        /\ nRegs' = nRegs => container' = container
      ]_vars

\* The registry holds two tokens; one of them was registered constructor-style,
\* resolved as a Singleton, and registered again as a factory since.
C19_Witness ==
    /\ log = << >> /\ nRegs = MaxRegs
    /\ \E token \in DOMAIN singletons, other \in DOMAIN container :
          /\ other # token
          /\ container[token].factory # Undefined
          /\ heap[singletons[token]].registration.factory = Undefined
          /\ container[token].constructorParams = << >>
          /\ heap[singletons[token]].registration.constructorParams # << >>


\* The Registration was stored by a call that left the optional arguments out.
Plain(token) ==
    /\ MapHas(container, token)
    /\ \/ container[token].implementation \in PlainClasses(token)
       \/ container[token].factory \in PlainFactories(token)

\* C20: the Registration stored by register(token, classType) has lifestyle
\* PerRequest, no dependency tokens and no literal parameters, and the one
\* stored by registerFactory(token, factory) has lifestyle PerRequest; every
\* call on such a token resolves nothing else, builds one new object with no
\* arguments and returns it, and no cache holds it.
C20_RegistrationDefaults ==
    /\ \A token \in DOMAIN container :
          Plain(token) =>
             /\ container[token].lifestyle = "PerRequest"
             /\ container[token].dependencies = << >>
             /\ container[token].constructorParams = << >>
    /\ \A i \in DOMAIN log :
          LET e == log[i]
          IN  (Plain(e.token) /\ e.depth <= MaxStack) =>
                 /\ e.ok /\ e.val > e.before
                 /\ e.val = e.after /\ e.after = e.before + 1
                 /\ Children(i) = {}
                 /\ heap[e.val].args = << >>
                 /\ heap[e.val].registration = container[e.token]
                 /\ e.val \notin Cached

\* A class registered as register(token, classType), resolved for the second
\* time through a scope handle: a second instance was built.
C20_Witness ==
    /\ log # << >>
    /\ Top.sc # NoScope
    /\ MapHas(container, Top.token)
    /\ container[Top.token].implementation \in PlainClasses(Top.token)
    /\ Top.ok /\ Top.val > Top.before
    /\ \E o \in 1..Top.before : heap[o].registration = container[Top.token]


\* C21: when a call on a constructor-style Registration has a dependency that
\* fails, that dependency is the last one the call resolves and the last call
\* to return before it; the dependencies resolved before it are the declared
\* ones that precede it, in order, and each of them succeeded; the call fails
\* with the failed dependency's error, returns no instance, and builds no
\* object after the failed dependency returned.
C21_FailureShortCircuits ==
    \A i \in DOMAIN log :
       LET e == log[i]
           n == Cardinality(Children(i))
       IN  (/\ MapHas(container, e.token)
            /\ container[e.token].factory = Undefined
            /\ \E j \in Children(i) : ~log[j].ok) =>
              LET dependencies == container[e.token].dependencies
                  failed == Child(i, n)
              IN  /\ n <= Len(dependencies)
                  /\ [k \in 1..n |-> log[Child(i, k)].token] =
                        SubSeq(dependencies, 1, n)
                  /\ \A k \in 1..(n - 1) : log[Child(i, k)].ok
                  /\ ~log[failed].ok
                  /\ failed = i - 1
                  /\ ~e.ok /\ e.val = 0
                  /\ e.err = log[failed].err
                  /\ e.after = log[failed].after

\* The second declared dependency failed after the first one had been built
\* in the same resolution.
C21_Witness ==
    /\ log # << >>
    /\ ~Top.ok
    /\ Cardinality(Children(Len(log))) = 2
    /\ LET first == log[Child(Len(log), 1)]
       IN  first.ok /\ first.val > first.before
    /\ ~log[Child(Len(log), 2)].ok
    /\ Top.after > Top.before


\* C22: every Registration of the registry is either constructor-style (an
\* implementation and no factory) or factory-style (a factory, a null
\* implementation and empty dependency and parameter lists), never both and
\* never neither, whatever calls were made.
C22_ExactlyOneRecipe ==
    \A token \in DOMAIN container :
       LET registration == container[token]
       IN  \/ /\ registration.implementation # Null
              /\ registration.factory = Undefined
           \/ /\ registration.implementation = Null
              /\ registration.factory # Undefined
              /\ registration.dependencies = << >>
              /\ registration.constructorParams = << >>

\* The registry holds a constructor-style and a factory-style Registration,
\* the latter for a token that was constructor-style before, and the factory
\* has just built an instance.
C22_Witness ==
    /\ log # << >>
    /\ Top.ok /\ Top.val > Top.before
    /\ container[Top.token].factory # Undefined
    /\ \E o \in 1..Top.before :
          /\ heap[o].token = Top.token
          /\ heap[o].registration.factory = Undefined
    /\ \E other \in DOMAIN container : container[other].factory = Undefined


\* C23: a call on a token whose Registration has a lifestyle other than
\* Singleton and Scoped, PerRequest or a value outside the enum, with or
\* without a scope context, behaves as PerRequest: when it succeeds it
\* returns the one object it built last, which no cache holds; it fails only
\* with the error of a dependency that failed, never for the lifestyle or a
\* missing scope; and neither cache receives an entry for its token.
C23_DefaultBranchIsPerRequest ==
    \A i \in DOMAIN log :
       LET e == log[i]
       IN  (/\ MapHas(container, e.token) /\ e.depth <= MaxStack
            /\ container[e.token].lifestyle \notin {"Singleton", "Scoped"}) =>
              /\ e.ok =>
                    /\ e.val > e.before /\ e.val = e.after
                    /\ heap[e.val].token = e.token
                    /\ e.val \notin Cached
              /\ ~e.ok =>
                    \E j \in Children(i) : ~log[j].ok /\ log[j].err = e.err
              /\ MapHas(singletons, e.token) => singletons[e.token] <= e.before
              /\ \A s \in DOMAIN scopes :
                    MapHas(scopes[s], e.token) => scopes[s][e.token] <= e.before

\* A token registered with a lifestyle outside the enum, resolved with no
\* scope for the second time as a dependency: a second instance was built.
C23_Witness ==
    /\ log # << >>
    /\ Top.ok /\ Top.sc = NoScope
    /\ \E i \in DOMAIN log :
          /\ log[i].lifestyle \in OtherLifeStyles
          /\ log[i].depth = 2
          /\ log[i].ok /\ log[i].val > log[i].before
          /\ \E o \in 1..log[i].before :
                heap[o].registration = container[log[i].token]


\* C24: after a resolution that failed, every Singleton or Scoped instance a
\* call of that resolution built and returned is still the entry of the
\* singleton cache, or of the resolving scope's cache, for its token, and
\* resolving that token next, in the same scope context, returns that very
\* instance without building.
C24_NoRollback ==
    (log # << >> /\ ~Top.ok) =>
       \A e \in Range(log) :
          (e.ok /\ e.val > e.before /\ e.lifestyle \in {"Singleton", "Scoped"}) =>
             LET again == getInstance(World, e.token, e.sc, 1)
             IN  /\ e.lifestyle = "Singleton" =>
                       MapHas(singletons, e.token) /\ singletons[e.token] = e.val
                 /\ e.lifestyle = "Scoped" =>
                       /\ e.sc \in DOMAIN scopes
                       /\ MapHas(scopes[e.sc], e.token)
                       /\ scopes[e.sc][e.token] = e.val
                 /\ again.ok /\ again.val = e.val
                 /\ again.w.heap = heap

\* A resolution through a scope failed with a build error after a Scoped
\* dependency had been built and cached one level down.
C24_Witness ==
    /\ log # << >>
    /\ ~Top.ok /\ Top.err = BuildFailure /\ Top.sc # NoScope
    /\ \E e \in Range(log) :
          /\ e.depth = 2 /\ e.ok /\ e.val > e.before /\ e.lifestyle = "Scoped"
          /\ MapHas(scopes[Top.sc], e.token)


\* C25: every key of the singleton cache is a registered token and its entry
\* an object built for that token under a Registration of Singleton
\* lifestyle; every key of a Scope cache is a registered token and its entry
\* an object built for that token, in that scope, under a Registration of
\* Scoped lifestyle; and a call dispatched as PerRequest leaves no entry for
\* its token in either cache that was not there when it began.
C25_CacheKeys ==
    /\ \A token \in DOMAIN singletons :
          /\ MapHas(container, token)
          /\ heap[singletons[token]].token = token
          /\ heap[singletons[token]].registration.lifestyle = "Singleton"
    /\ \A s \in DOMAIN scopes : \A token \in DOMAIN scopes[s] :
          /\ MapHas(container, token)
          /\ heap[scopes[s][token]].token = token
          /\ heap[scopes[s][token]].registration.lifestyle = "Scoped"
          /\ heap[scopes[s][token]].owner = s
    /\ \A e \in Range(log) :
          e.lifestyle = "PerRequest" =>
             /\ e.ok => e.val \notin Cached
             /\ MapHas(singletons, e.token) => singletons[e.token] <= e.before
             /\ \A s \in DOMAIN scopes :
                   MapHas(scopes[s], e.token) => scopes[s][e.token] <= e.before

\* One token has an entry in the singleton cache and in a Scope cache, both
\* kept from earlier Registrations, and has just been resolved as PerRequest
\* through that scope.
C25_Witness ==
    /\ log # << >>
    /\ Top.ok /\ Top.lifestyle = "PerRequest" /\ Top.sc # NoScope
    /\ MapHas(singletons, Top.token)
    /\ MapHas(scopes[Top.sc], Top.token)
    /\ Top.val > Top.before


\* The commands undone and not redone: those after the current index.
UndoneCount == Len(commandHistory) - 1 - currentHistoryIndex

\* C26: the current index lies between -1 and the last index of the history;
\* undo at index -1 and redo at the last index leave the keyboard as it is;
\* and pressKey of a bound key keeps the history up to the current index,
\* drops the commands after it, appends the new command and moves the index
\* to it, so that a redo after it leaves the keyboard as it is.
C26_HistoryIndex ==
    /\ currentHistoryIndex >= -1
    /\ currentHistoryIndex <= Len(commandHistory) - 1
    /\ currentHistoryIndex = -1 => Undone(Keyboard) = Keyboard
    /\ currentHistoryIndex = Len(commandHistory) - 1 => Redone(Keyboard) = Keyboard
    /\ \A key \in DOMAIN keyBindings :
          LET after == Pressed(Keyboard, key)
          IN  /\ after.commandHistory =
                    Append(SubSeq(commandHistory, 1, currentHistoryIndex + 1),
                           keyBindings[key])
              /\ Len(after.commandHistory) = Len(commandHistory) - UndoneCount + 1
              /\ after.currentHistoryIndex = Len(after.commandHistory) - 1
              /\ Redone(after) = after

\* Three commands were entered and two of them undone.
C26_Witness ==
    /\ Len(commandHistory) = 3
    /\ currentHistoryIndex = 0
    /\ UndoneCount = 2


\* The property-changing listeners that refuse the change, by position.
Refusing(propertyName, oldValue, newValue) ==
    {k \in DOMAIN propertyChangingListeners :
        ~onPropertyChanging(propertyChangingListeners[k], propertyName,
                            oldValue, newValue)}

\* What C27 says of setProperty(propertyName, currentValue, newValue).
SetPropertyAsClaimed(propertyName, currentValue, newValue) ==
    LET r == setProperty(propertyName, currentValue, newValue)
        refusing == Refusing(propertyName, currentValue, newValue)
        asked == {k \in DOMAIN r.calls : r.calls[k].kind = "changing"}
        told == {k \in DOMAIN r.calls : r.calls[k].kind = "changed"}
        n == Len(propertyChangingListeners)
    IN  /\ currentValue = newValue => r.value = currentValue /\ r.calls = << >>
        /\ (currentValue # newValue /\ refusing = {}) =>
              /\ r.value = newValue
              /\ Len(r.calls) = n + Len(propertyChangedListeners)
              /\ \A k \in 1..n :
                    r.calls[k] = Call(propertyChangingListeners[k], "changing",
                                      propertyName, TRUE)
              /\ \A k \in 1..Len(propertyChangedListeners) :
                    r.calls[n + k] = Call(propertyChangedListeners[k], "changed",
                                          propertyName, TRUE)
        /\ (currentValue # newValue /\ refusing # {}) =>
              LET first == CHOOSE k \in refusing : \A j \in refusing : k <= j
              IN  /\ r.value = currentValue
                  /\ told = {}
                  /\ asked = 1..first
                  /\ \A k \in 1..first :
                        r.calls[k] = Call(propertyChangingListeners[k], "changing",
                                          propertyName, k < first)

\* C27: in every state and for every assignment, setProperty returns the new
\* value exactly when it differs from the current one and no property-changing
\* listener refuses; when one refuses, the listeners are consulted in order up
\* to the first that refuses and no further, the current value is returned and
\* no property-changed listener is told; when the change is accepted every
\* property-changing listener was consulted once and every property-changed
\* listener is told once, in registration order, after them.
C27_SetProperty ==
    /\ \A value \in Names \cup {""} : SetPropertyAsClaimed("name", name, value)
    /\ \A value \in Ages \cup {0} : SetPropertyAsClaimed("age", age, value)

\* The latest assignment was refused by the second property-changing listener
\* after the first had agreed, with a property-changed listener registered.
C27_Witness ==
    /\ Len(calls) = 2
    /\ calls[1].result /\ ~calls[2].result
    /\ Len(propertyChangingListeners) = 2
    /\ propertyChangedListeners # << >>


\* C28: in every state reached by add, update and delete from a repository
\* whose initial items have unique ids, no two stored items share an id; add
\* of an item whose id is present, and update or delete of an item whose id
\* is absent, leave the item list as it is.
C28_UniqueIds ==
    /\ UniqueIds(items)
    /\ \A item \in Items :
          LET present == \E k \in DOMAIN items : items[k].id = item.id
          IN  /\ present => Added(items, item) = items
              /\ ~present => /\ Updated(items, item) = items
                             /\ Deleted(items, item) = items

\* Two items are stored, some id is absent, and a further item with the id of
\* a stored one differs from it: an add that must be refused, and an update
\* and a delete that must find nothing, are all at hand.
C28_Witness ==
    /\ Len(items) = 2
    /\ storedData = FileOf(items)
    /\ \E item \in Items :
          \E k \in DOMAIN items : items[k].id = item.id /\ items[k] # item
    /\ \E id \in Ids : \A k \in DOMAIN items : items[k].id # id


====
